---------------------------- MODULE Spec2Model ----------------------------
(***************************************************************************)
(* AnchorPositioningStrategy (cdk/overlay/position): the lifecycle of the  *)
(* declarative anchor position strategy and what it writes to the overlay  *)
(* pane and to its bounding-box host.                                      *)
(*                                                                         *)
(* The repository holds three revisions of the class:                      *)
(*   rev = 1  src/unnamed/part_000, lines 37-178   (anchor by name or      *)
(*            element, withPositionFallback, _paneOriginalPosition)        *)
(*   rev = 2  src/unnamed/part_000, lines 217-367  (origin element,        *)
(*            _boundingBox, position validation on attach)                 *)
(*   rev = 3  src/src/cdk/overlay/position/anchor-positioning-strategy.ts  *)
(* One strategy instance of one revision is modelled, with two overlays    *)
(* it may be attached to.  Every action is one whole call of a public      *)
(* method; a call that throws leaves the writes made before the throw.     *)
(***************************************************************************)
EXTENDS Integers, Sequences, FiniteSets, TLC

VARIABLES
    rev,                    \* which revision of the class the instance is
    isBrowser,              \* Platform.isBrowser
    direction,              \* per overlay: OverlayReference.getDirection()
    overlayReference,       \* _overlayReference / _overlayRef
    overlayElement,         \* _overlayElement / _pane
    hostElement,            \* _hostElement / _boundingBox
    isDisposed,             \* _isDisposed (undefined counts as FALSE)
    positionChanges,        \* _positionChanges (rev 3): its observers, the events
                            \* delivered to them, whether it has completed
    paneOriginalPosition,   \* _paneOriginalPosition (rev 1, 2)
    preferredPositions,     \* _preferredPositions
    origin,                 \* _origin / _anchor
    positionFallback,       \* _positionFallback (rev 1)
    viewportMargin,         \* _viewportMargin (rev 3)
    hasFlexibleDimensions,  \* _hasFlexibleDimensions (rev 3)
    positionFallbackId,     \* module-level counter (rev 3)
    positionFallbackIdents, \* the rule-set names built from the counter so far, in order
    options,                \* _scrollables, _growAfterOpen, _canPush, _positionLocked,
                            \* _offsetX, _offsetY (rev 3): stored, read by no method
    pane,                   \* per overlay: the pane's inline style and anchorElement
    host,                   \* per overlay: the host's class and inline style
    styleSheets,            \* fallback rule sets the strategy has registered in the document
    callerPosition,         \* the panes' inline position before the strategy is first attached
    everBound,              \* overlays some attach() has bound so far
    lastCall,               \* the last call made and how it ended
    manual                  \* the manual placement engine: what it measures, its
                            \* configuration and the rectangle it committed

strategyVars == <<overlayReference, overlayElement, hostElement, isDisposed,
                  paneOriginalPosition, preferredPositions, origin,
                  positionFallback, viewportMargin, hasFlexibleDimensions>>
domVars == <<pane, host, styleSheets>>
vars == <<rev, isBrowser, direction, positionChanges, strategyVars, positionFallbackId,
          positionFallbackIdents, options, domVars,
          callerPosition, everBound, lastCall, manual>>

-----------------------------------------------------------------------------
(* Bounds and value sets *)

\* apply() calls that reach _applyAnchorPositioning are capped (the counter is unbounded)
MaxFallbackId == 2

\* of the six options no method reads, at most this many are away from their defaults
MaxOptionsSet == 1

Revisions == {1, 2, 3}
Overlays == {"A", "B"}
None == "undefined"

Elements == {"el1", "el2"}
AnchorNames == {"anchor"}
ElementRefs == {"ref(el2)"}
OriginInputs == {"el1"} \cup ElementRefs \cup AnchorNames
Margins == {0, 8}
FallbackNames == {"default-position"}
CallerPositions == {"", "absolute"}

Pair(ox, oy, vx, vy, cls) ==
    [originX |-> ox, originY |-> oy, overlayX |-> vx, overlayY |-> vy, panelClass |-> cls]

PositionLists ==
    { <<>>,
      <<Pair("start", "bottom", "start", "top", "")>>,
      <<Pair("start", "bottom", "start", "top", ""), Pair("end", "top", "end", "bottom", "")>>,
      <<Pair("start", "bottom", "start", "top", "big")>>,
      <<Pair("center", "bottom", "center", "top", "")>> }

\* every pair of the position model without a panelClass, as one-pair lists,
\* and two lists of two pairs
HorizontalValues == {"start", "center", "end"}
VerticalValues == {"top", "center", "bottom"}
Directions == {"ltr", "rtl"}

AllPairs ==
    { Pair(ox, oy, vx, vy, "") : ox \in HorizontalValues, oy \in VerticalValues,
                                 vx \in HorizontalValues, vy \in VerticalValues }

PlacementLists ==
    { <<p>> : p \in AllPairs }
        \cup { <<Pair("start", "bottom", "start", "top", ""),
                 Pair("end", "top", "end", "bottom", "")>>,
               <<Pair("end", "bottom", "end", "top", ""),
                 Pair("start", "top", "start", "bottom", "")>>,
               <<Pair("center", "bottom", "center", "top", ""),
                 Pair("end", "center", "start", "center", ""),
                 Pair("start", "top", "end", "bottom", "")>> }

\* OverlayReference.getConfig(): the size constraints of each overlay
getConfig(o) ==
    IF o = "A" THEN [minHeight |-> "10px", minWidth |-> ""]
               ELSE [minHeight |-> "", minWidth |-> "20px"]

EmptyPane ==
    [position |-> "", top |-> "", left |-> "", bottom |-> "", right |-> "",
     transform |-> "", minHeight |-> "", minWidth |-> "",
     anchorDefault |-> "", positionFallback |-> "", anchorElement |-> None]

EmptyHost ==
    [boundingBoxClass |-> FALSE, top |-> "", left |-> "", right |-> "", bottom |-> "",
     height |-> "", width |-> "", alignItems |-> "", justifyContent |-> "", margin |-> ""]

-----------------------------------------------------------------------------
(* Helpers *)

\* mutant: a build with ngDevMode false, in which the checks are compiled out
ngDevModeChecks_Off == FALSE

\* typeof ngDevMode === 'undefined' || ngDevMode: nothing in the repository
\* defines ngDevMode, so the development checks are on
ngDevModeChecks == TRUE

extendStyles(destination, source) ==
    [k \in DOMAIN destination |->
        IF k \in DOMAIN source THEN source[k] ELSE destination[k]]

\* style.position = v: an undefined value is no valid declaration and is ignored
AssignPosition(style, v) ==
    IF v = None THEN style ELSE [style EXCEPT !.position = v]

\* The record of a call: which method, its overlay argument, how it ended
\* ("ok" or the error thrown), and whether it repeats the call before it.
\* The configuration setters are recorded alike, as "configure".
Call(op, arg, result) ==
    [op |-> op, arg |-> arg, result |-> result,
     repeat |-> (op # "configure" /\ lastCall.op = op /\ lastCall.arg = arg)]

\* mutant: the comparison of the two overlays reversed (=== for !==)
AlreadyAttached_SameOverlay(overlayRef) ==
    /\ overlayReference # None
    /\ overlayRef = overlayReference
    /\ ngDevModeChecks

\* the guard at the top of attach()
AlreadyAttached(overlayRef) ==
    /\ overlayReference # None
    /\ overlayRef # overlayReference
    /\ ngDevModeChecks

\* _validatePositions(): the error it throws, or "ok"
RECURSIVE HasPanelClass(_)
HasPanelClass(positions) ==
    IF positions = <<>> THEN FALSE
    ELSE Head(positions).panelClass # "" \/ HasPanelClass(Tail(positions))

\* mutant: the check for an empty list left out
validatePositions_NoEmptyCheck(positions) ==
    IF ~ngDevModeChecks THEN "ok"
    ELSE IF rev = 3 /\ HasPanelClass(positions) THEN "PanelClassNotSupported"
    ELSE "ok"

\* mutant: the check for a panelClass left out
validatePositions_NoPanelClassCheck(positions) ==
    IF ~ngDevModeChecks THEN "ok"
    ELSE IF Len(positions) = 0 THEN "PositionRequired"
    ELSE "ok"

\* mutant: a pair that asks for center refused
validatePositions_RejectsCenter(positions) ==
    IF ~ngDevModeChecks THEN "ok"
    ELSE IF Len(positions) = 0 THEN "PositionRequired"
    ELSE IF rev = 3 /\ HasPanelClass(positions) THEN "PanelClassNotSupported"
    ELSE IF \E i \in 1..Len(positions) :
                positions[i].overlayX = "center" \/ positions[i].overlayY = "center"
         THEN "CenterNotSupported"
    ELSE "ok"

\* every value of a pair the model draws is one of the position model's, so
\* validateConnectionPositionPairs (imported, line 322) accepts it
validatePositions(positions) ==
    IF ~ngDevModeChecks THEN "ok"
    ELSE IF Len(positions) = 0 THEN "PositionRequired"
    ELSE IF rev = 3 /\ HasPanelClass(positions) THEN "PanelClassNotSupported"
    ELSE "ok"

resetOverlayElementStyles(p) ==
    IF rev = 3
    THEN extendStyles(p, [top |-> "", left |-> "", bottom |-> "", right |-> "",
                          position |-> "", transform |-> "",
                          minHeight |-> "", minWidth |-> ""])
    ELSE extendStyles(p, [top |-> "", left |-> "", bottom |-> "", right |-> "",
                          position |-> "", transform |-> ""])

\* mutant: the margin left as the last apply() wrote it
resetHostElementStyles_KeepsMargin(h, insetZero) ==
    LET insetLength == IF insetZero THEN "0" ELSE "" IN
    extendStyles(h, [top |-> insetLength, left |-> insetLength,
                     right |-> insetLength, bottom |-> insetLength,
                     height |-> "", width |-> "", alignItems |-> "",
                     justifyContent |-> ""])

resetHostElementStyles(h, insetZero) ==
    LET insetLength == IF insetZero THEN "0" ELSE "" IN
    IF rev = 3
    THEN extendStyles(h, [top |-> insetLength, left |-> insetLength,
                          right |-> insetLength, bottom |-> insetLength,
                          height |-> "", width |-> "", alignItems |-> "",
                          justifyContent |-> "", margin |-> ""])
    ELSE extendStyles(h, [top |-> "0", left |-> "0", right |-> "0", bottom |-> "0",
                          height |-> "", width |-> "", alignItems |-> "",
                          justifyContent |-> ""])

\* mutant: the fallback identifier of this apply() written to the pane
setOverlayElementStyles_WritesIdent(p, o) ==
    LET config == getConfig(o)
        p1 == [p EXCEPT !.position = "fixed",
                        !.positionFallback =
                            "--overlay-position-fallback-" \o ToString(positionFallbackId)]
        p2 == IF hasFlexibleDimensions /\ config.minHeight # ""
              THEN [p1 EXCEPT !.minHeight = config.minHeight] ELSE p1
    IN  IF hasFlexibleDimensions /\ config.minWidth # ""
        THEN [p2 EXCEPT !.minWidth = config.minWidth] ELSE p2

setOverlayElementStyles(p, o) ==
    LET config == getConfig(o)
        p1 == [p EXCEPT !.position = "fixed"]
        p2 == IF hasFlexibleDimensions /\ config.minHeight # ""
              THEN [p1 EXCEPT !.minHeight = config.minHeight] ELSE p1
    IN  IF hasFlexibleDimensions /\ config.minWidth # ""
        THEN [p2 EXCEPT !.minWidth = config.minWidth] ELSE p2

\* mutant: the margin written whatever its value
setHostElementStyles_AlwaysWrites(h) ==
    [h EXCEPT !.margin = ToString(viewportMargin) \o "px"]

setHostElementStyles(h) ==
    IF viewportMargin # 0
    THEN [h EXCEPT !.margin = ToString(viewportMargin) \o "px"]
    ELSE h

\* _isRtl(): the direction of the bound overlay, read at the call
isRtl == direction[overlayReference] = "rtl"

getAnchorCenterCalc(anchorInset) ==
    "calc(" \o anchorInset \o " - min(" \o anchorInset \o " - 0%, 100% - "
            \o anchorInset \o "))"

\* mutant: an end in rtl bound on the left as well as on the right
getAnchorPosition_BothSides(position, rtl) ==
    LET anchorY == "anchor(" \o position.originY \o ")"
        anchorX == "anchor(" \o position.originX \o ")"
        a0 == [top |-> None, bottom |-> None, left |-> None, right |-> None,
               centerBlock |-> FALSE, centerInline |-> FALSE]
        a1 == IF position.overlayY = "center"
              THEN [a0 EXCEPT !.top = getAnchorCenterCalc(anchorY),
                              !.bottom = getAnchorCenterCalc(anchorY),
                              !.centerBlock = TRUE]
              ELSE IF position.overlayY = "top"
              THEN [a0 EXCEPT !.top = anchorY]
              ELSE [a0 EXCEPT !.bottom = anchorY]
    IN  IF position.overlayX = "center"
        THEN [a1 EXCEPT !.top = getAnchorCenterCalc(anchorX),
                        !.bottom = getAnchorCenterCalc(anchorX),
                        !.centerInline = TRUE]
        ELSE IF position.overlayX = "start" \/ ~rtl
        THEN [a1 EXCEPT !.left = anchorX]
        ELSE [a1 EXCEPT !.left = anchorX, !.right = anchorX]

\* getAnchorPosition(position); a side that is not set is None.  The branch
\* for a centred overlayX writes top and bottom, as the source does.
getAnchorPosition(position, rtl) ==
    LET anchorY == "anchor(" \o position.originY \o ")"
        anchorX == "anchor(" \o position.originX \o ")"
        a0 == [top |-> None, bottom |-> None, left |-> None, right |-> None,
               centerBlock |-> FALSE, centerInline |-> FALSE]
        a1 == IF position.overlayY = "center"
              THEN [a0 EXCEPT !.top = getAnchorCenterCalc(anchorY),
                              !.bottom = getAnchorCenterCalc(anchorY),
                              !.centerBlock = TRUE]
              ELSE IF position.overlayY = "top"
              THEN [a0 EXCEPT !.top = anchorY]
              ELSE [a0 EXCEPT !.bottom = anchorY]
    IN  IF position.overlayX = "center"
        THEN [a1 EXCEPT !.top = getAnchorCenterCalc(anchorX),
                        !.bottom = getAnchorCenterCalc(anchorX),
                        !.centerInline = TRUE]
        ELSE IF position.overlayX = "start" \/ ~rtl
        THEN [a1 EXCEPT !.left = anchorX]
        ELSE [a1 EXCEPT !.right = anchorX]

\* one @try block of getPositionTryCss()
tryCss(position, rtl) ==
    LET anchorPosition == getAnchorPosition(position, rtl)
        t1 == "@try { "
        t2 == IF anchorPosition.top # None
              THEN t1 \o "top: " \o anchorPosition.top \o "; " ELSE t1
        t3 == IF anchorPosition.bottom # None
              THEN t2 \o "bottom: " \o anchorPosition.bottom \o "; " ELSE t2
        t4 == IF anchorPosition.centerBlock
              THEN t3 \o "align-items: center; "
              ELSE t3 \o "align-items: "
                      \o (IF position.overlayX = "end" THEN "flex-end" ELSE "flex-start")
        t5 == IF anchorPosition.left # None
              THEN t4 \o "left: " \o anchorPosition.left \o "; " ELSE t4
        t6 == IF anchorPosition.right # None
              THEN t5 \o "right: " \o anchorPosition.right \o "; " ELSE t5
        t7 == IF anchorPosition.centerInline
              THEN t6 \o "justify-content: center; "
              ELSE t6 \o "justify-content: "
                      \o (IF position.overlayY = "bottom" THEN "flex-end" ELSE "flex-start")
    IN  t7 \o "} "

\* mutant: the blocks put out last pair first
RECURSIVE tryBlocks_Reversed(_, _)
tryBlocks_Reversed(positions, rtl) ==
    IF positions = <<>> THEN ""
    ELSE tryBlocks_Reversed(Tail(positions), rtl) \o tryCss(Head(positions), rtl)

RECURSIVE tryBlocks(_, _)
tryBlocks(positions, rtl) ==
    IF positions = <<>> THEN ""
    ELSE tryCss(Head(positions), rtl) \o tryBlocks(Tail(positions), rtl)

getPositionTryCss(positionFallbackIdent) ==
    "@position " \o positionFallbackIdent \o " { "
        \o tryBlocks(preferredPositions, isRtl) \o "}"

\* mutant: the rule set of this apply() registered in the document
styleSheetsAfterApply_Registered ==
    styleSheets \cup {"--overlay-position-fallback-" \o ToString(positionFallbackId)}

\* _applyAnchorPositioning() computes the text of the fallback rule set into a
\* local and returns: no rule set is added to the document (rev 1 and 2 refer
\* to a rule set of the caller's by name and register none either)
styleSheetsAfterApply ==
    LET positionFallbackIdent ==
            "--overlay-position-fallback-" \o ToString(positionFallbackId)
        positionFallbackCss ==
            IF rev = 3 THEN getPositionTryCss(positionFallbackIdent) ELSE ""
    IN  styleSheets

\* the field initialisers of the options (rev 3)
DefaultOptions ==
    [scrollables |-> <<>>, growAfterOpen |-> FALSE, canPush |-> TRUE,
     positionLocked |-> FALSE, offsetX |-> 0, offsetY |-> 0]

\* the manual engine before anything is configured or applied
ManualIdle ==
    [anchor |-> [x |-> 0, y |-> 0, width |-> 0, height |-> 0],
     overlay |-> [width |-> 0, height |-> 0],
     positions |-> <<>>, canPush |-> TRUE, margin |-> 0,
     applied |-> FALSE, chosen |-> 0, committed |-> [x |-> 0, y |-> 0]]

-----------------------------------------------------------------------------
Init ==
    /\ rev \in Revisions
    /\ isBrowser \in BOOLEAN
    /\ direction = [o \in Overlays |-> "ltr"]
    /\ overlayReference = None
    /\ overlayElement = None
    /\ hostElement = None
    /\ isDisposed = FALSE
    /\ positionChanges = [observers |-> {}, delivered |-> 0, isStopped |-> FALSE]
    /\ paneOriginalPosition = None
    /\ preferredPositions = <<>>
    /\ origin = "el1"
    /\ positionFallback = None
    /\ viewportMargin = 0
    /\ hasFlexibleDimensions = TRUE
    /\ positionFallbackId = 0
    /\ positionFallbackIdents = <<>>
    /\ options = DefaultOptions
    /\ callerPosition \in CallerPositions
    /\ pane = [o \in Overlays |-> [EmptyPane EXCEPT !.position = callerPosition]]
    /\ host = [o \in Overlays |-> EmptyHost]
    /\ styleSheets = {}
    /\ everBound = {}
    /\ lastCall = [op |-> "new", arg |-> "-", result |-> "ok", repeat |-> FALSE]
    /\ manual = ManualIdle


-----------------------------------------------------------------------------
(* The public methods.  Each action is one call. *)

\* mutant: classList.toggle for classList.add
addBoundingBoxClass_Toggle(h) == [h EXCEPT !.boundingBoxClass = ~@]

\* hostElement.classList.add(BOUNDING_BOX_CLASS)
addBoundingBoxClass(h) == [h EXCEPT !.boundingBoxClass = TRUE]

\* attach(overlayRef)
attach(overlayRef) ==
    LET invalid == IF rev = 1 THEN "ok" ELSE validatePositions(preferredPositions) IN
    IF AlreadyAttached(overlayRef)
    THEN /\ lastCall' = Call("attach", overlayRef, "AlreadyAttached")
         /\ UNCHANGED <<strategyVars, domVars, everBound>>
    ELSE IF invalid # "ok"
    THEN /\ lastCall' = Call("attach", overlayRef, invalid)
         /\ UNCHANGED <<strategyVars, domVars, everBound>>
    ELSE /\ overlayReference' = overlayRef
         /\ overlayElement' = overlayRef
         /\ hostElement' = IF rev = 1 THEN hostElement ELSE overlayRef
         /\ paneOriginalPosition' =
                IF rev = 1 THEN pane[overlayRef].position ELSE paneOriginalPosition
         /\ isDisposed' = FALSE
         /\ host' = IF rev = 1 THEN host
                    ELSE [host EXCEPT ![overlayRef] = addBoundingBoxClass(@)]
         /\ everBound' = everBound \cup {overlayRef}
         /\ lastCall' = Call("attach", overlayRef, "ok")
         /\ UNCHANGED <<pane, styleSheets, preferredPositions, origin,
                        positionFallback, viewportMargin, hasFlexibleDimensions>>

Attach ==
    /\ \E overlayRef \in Overlays : attach(overlayRef)
    /\ UNCHANGED <<manual, rev, isBrowser, direction, positionChanges, positionFallbackId, positionFallbackIdents, options, callerPosition>>

\* mutants: one of the two conditions of the guard left out
applyIsNoOp_NoDisposedCheck == ~isBrowser
applyIsNoOp_NoBrowserCheck == isDisposed

\* the guard at the top of apply()
applyIsNoOp == isDisposed \/ ~isBrowser

\* mutant: the ElementRef itself taken for the anchor
anchorOf_NoUnwrap(o) == o

\* origin instanceof ElementRef ? origin.nativeElement : origin
anchorOf(o) == IF o \in ElementRefs THEN "el2" ELSE o

\* the pane after an apply() that got past the guard
applyPane(p, o) ==
    CASE rev = 1 ->
            LET p1 == [p EXCEPT !.position = "fixed"]
                p2 == IF origin \in AnchorNames
                      THEN [p1 EXCEPT !.anchorDefault = "--" \o origin]
                      ELSE [p1 EXCEPT !.anchorElement = anchorOf(origin)]
            IN  IF positionFallback # None
                THEN [p2 EXCEPT !.positionFallback = "--" \o positionFallback]
                ELSE p2
      [] rev = 2 ->
            [resetOverlayElementStyles(p) EXCEPT !.position = "fixed",
                                                 !.anchorElement = anchorOf(origin)]
      [] rev = 3 ->
            setOverlayElementStyles(
                [resetOverlayElementStyles(p) EXCEPT !.anchorElement = anchorOf(origin)], o)

\* the host after an apply() that got past the guard
applyHost(h) ==
    CASE rev = 1 -> h
      [] rev = 2 -> resetHostElementStyles(h, TRUE)
      [] rev = 3 -> setHostElementStyles(resetHostElementStyles(h, TRUE))

\* mutant: the counter read without the increment
nextPositionFallbackId_NoIncrement == positionFallbackId

\* _applyAnchorPositioning() takes the next fallback identifier (rev 3)
nextPositionFallbackId == IF rev = 3 THEN positionFallbackId + 1 ELSE positionFallbackId

\* the names built so far, with the one this _applyAnchorPositioning() builds
\* from the counter's value before the increment (rev 3)
identsAfterApply ==
    IF rev = 3
    THEN Append(positionFallbackIdents,
                "--overlay-position-fallback-" \o ToString(positionFallbackId))
    ELSE positionFallbackIdents

\* mutant: the event sent whether or not anyone observes
hasObservers_Always == TRUE

\* this._positionChanges.observers.length
hasObservers == positionChanges.observers # {}

\* _observePosition() (rev 3): one event to the observers, if there are any
\* and the subject has not completed
observePosition ==
    IF rev = 3 /\ hasObservers /\ ~positionChanges.isStopped
    THEN [positionChanges EXCEPT !.delivered = @ + 1]
    ELSE positionChanges

\* apply()
Apply ==
    /\ UNCHANGED <<manual, rev, isBrowser, direction, strategyVars, options, callerPosition, everBound>>
    /\ IF applyIsNoOp
       THEN /\ lastCall' = Call("apply", "-", "ok")
            /\ UNCHANGED <<domVars, positionFallbackId, positionFallbackIdents, positionChanges>>
       ELSE IF overlayElement = None
       THEN \* the first write to the pane dereferences undefined
            /\ lastCall' = Call("apply", "-", "TypeError")
            /\ UNCHANGED <<domVars, positionFallbackId, positionFallbackIdents, positionChanges>>
       ELSE /\ positionFallbackId < MaxFallbackId
            /\ positionChanges' = observePosition
            /\ pane' = [pane EXCEPT ![overlayElement] = applyPane(@, overlayElement)]
            /\ host' = IF rev = 1 THEN host
                       ELSE [host EXCEPT ![hostElement] = applyHost(@)]
            /\ styleSheets' = styleSheetsAfterApply
            /\ positionFallbackId' = nextPositionFallbackId
            /\ positionFallbackIdents' = identsAfterApply
            /\ lastCall' = Call("apply", "-", "ok")

\* the pane after detach() of rev 1 and 2
detachPane(p) ==
    [AssignPosition([p EXCEPT !.anchorDefault = "", !.positionFallback = ""],
                    paneOriginalPosition)
        EXCEPT !.anchorElement = None]

\* detach(): the result and the DOM it leaves
detachResult == IF rev # 3 /\ overlayElement = None THEN "TypeError" ELSE "ok"

detachedPanes ==
    IF rev = 3 \/ overlayElement = None THEN pane
    ELSE [pane EXCEPT ![overlayElement] = detachPane(@)]

\* mutant: detach() releasing the overlay as dispose() does
Detach_ReleasesBinding ==
    /\ pane' = detachedPanes
    /\ lastCall' = Call("detach", "-", detachResult)
    /\ overlayReference' = None
    /\ overlayElement' = None
    /\ UNCHANGED <<manual, rev, isBrowser, direction, positionChanges, hostElement, isDisposed,
                   paneOriginalPosition, preferredPositions, origin,
                   positionFallback, viewportMargin, hasFlexibleDimensions,
                   positionFallbackId, positionFallbackIdents, options, host, styleSheets, callerPosition, everBound>>

Detach ==
    /\ pane' = detachedPanes
    /\ lastCall' = Call("detach", "-", detachResult)
    /\ UNCHANGED <<manual, rev, isBrowser, direction, positionChanges, strategyVars, positionFallbackId, positionFallbackIdents, options, host,
                   styleSheets, callerPosition, everBound>>

\* mutant: the guard negated
disposeIsNoOp_Inverted == ~isDisposed

\* the guard at the top of dispose()
disposeIsNoOp == isDisposed

\* dispose()
Dispose ==
    /\ UNCHANGED <<manual, rev, isBrowser, direction, positionFallbackId, positionFallbackIdents, options, callerPosition, everBound,
                   styleSheets, paneOriginalPosition, preferredPositions, origin, positionFallback,
                   viewportMargin, hasFlexibleDimensions>>
    /\ IF disposeIsNoOp
       THEN /\ lastCall' = Call("dispose", "-", "ok")
            /\ UNCHANGED <<overlayReference, overlayElement, hostElement,
                           isDisposed, positionChanges, domVars>>
       ELSE IF rev = 3
       THEN /\ host' = IF hostElement = None THEN host
                       ELSE [host EXCEPT ![hostElement] =
                                [resetHostElementStyles(@, FALSE)
                                    EXCEPT !.boundingBoxClass = FALSE]]
            /\ pane' = IF overlayElement = None THEN pane
                       ELSE [pane EXCEPT ![overlayElement] = resetOverlayElementStyles(@)]
            /\ positionChanges' = [positionChanges EXCEPT !.isStopped = TRUE]
            /\ overlayReference' = None
            /\ hostElement' = None
            /\ overlayElement' = None
            /\ isDisposed' = TRUE
            /\ lastCall' = Call("dispose", "-", "ok")
       ELSE \* rev 1, 2: this.detach(); this._isDisposed = true
            /\ pane' = detachedPanes
            /\ isDisposed' = (detachResult = "ok")
            /\ lastCall' = Call("dispose", "-", detachResult)
            /\ UNCHANGED <<overlayReference, overlayElement, hostElement, host,
                           positionChanges>>

-----------------------------------------------------------------------------
(* Configuration *)

\* withPositions(positions); rev 1 and 2 have only the public field _preferredPositions
withPositions(positions) ==
    /\ preferredPositions' = positions
    /\ lastCall' = Call("configure", "-",
                        IF rev = 3 THEN validatePositions(positions) ELSE "ok")
    /\ UNCHANGED <<manual, rev, isBrowser, direction, positionChanges, overlayReference, overlayElement, hostElement,
                   isDisposed, paneOriginalPosition, origin, positionFallback,
                   viewportMargin, hasFlexibleDimensions, positionFallbackId, positionFallbackIdents, options,
                   domVars, callerPosition, everBound>>

WithPositions == \E positions \in PositionLists : withPositions(positions)

\* setOrigin(origin) / withOrigin(origin) / withAnchor(anchor)
\* mutant: the check of the argument's type left out
originAccepted_Any(o) == TRUE

originAccepted(o) == rev = 1 \/ o \in Elements \cup ElementRefs

setOrigin(o) ==
    /\ origin' = IF originAccepted(o) THEN o ELSE origin
    /\ lastCall' = Call("configure", "-",
                        IF originAccepted(o) THEN "ok" ELSE "InvalidOrigin")
    /\ UNCHANGED <<manual, rev, isBrowser, direction, positionChanges, overlayReference, overlayElement, hostElement,
                   isDisposed, paneOriginalPosition, preferredPositions,
                   positionFallback, viewportMargin, hasFlexibleDimensions,
                   positionFallbackId, positionFallbackIdents, options, domVars, callerPosition, everBound>>

SetOrigin == \E o \in OriginInputs : setOrigin(o)

\* withPositionFallback(positionFallback) (rev 1)
WithPositionFallback ==
    /\ rev = 1
    /\ \E name \in FallbackNames : positionFallback' = name
    /\ lastCall' = Call("configure", "-", "ok")
    /\ UNCHANGED <<manual, rev, isBrowser, direction, positionChanges, overlayReference, overlayElement, hostElement,
                   isDisposed, paneOriginalPosition, preferredPositions, origin,
                   viewportMargin, hasFlexibleDimensions, positionFallbackId, positionFallbackIdents, options,
                   domVars, callerPosition, everBound>>

\* mutant: the margin written to the host at once, as well as stored
WithViewportMargin_WritesHost ==
    /\ rev = 3
    /\ \E margin \in Margins :
          /\ viewportMargin' = margin
          /\ host' = IF hostElement = None THEN host
                     ELSE [host EXCEPT ![hostElement].margin = ToString(margin) \o "px"]
    /\ lastCall' = Call("configure", "-", "ok")
    /\ UNCHANGED <<manual, rev, isBrowser, direction, positionChanges, overlayReference, overlayElement, hostElement,
                   isDisposed, paneOriginalPosition, preferredPositions, origin,
                   positionFallback, hasFlexibleDimensions, positionFallbackId, positionFallbackIdents, options,
                   pane, styleSheets, callerPosition, everBound>>

\* withViewportMargin(margin) (rev 3)
WithViewportMargin ==
    /\ rev = 3
    /\ \E margin \in Margins : viewportMargin' = margin
    /\ lastCall' = Call("configure", "-", "ok")
    /\ UNCHANGED <<manual, rev, isBrowser, direction, positionChanges, overlayReference, overlayElement, hostElement,
                   isDisposed, paneOriginalPosition, preferredPositions, origin,
                   positionFallback, hasFlexibleDimensions, positionFallbackId, positionFallbackIdents, options,
                   domVars, callerPosition, everBound>>

\* withFlexibleDimensions(flexibleDimensions) (rev 3)
WithFlexibleDimensions ==
    /\ rev = 3
    /\ \E flexibleDimensions \in BOOLEAN : hasFlexibleDimensions' = flexibleDimensions
    /\ lastCall' = Call("configure", "-", "ok")
    /\ UNCHANGED <<manual, rev, isBrowser, direction, positionChanges, overlayReference, overlayElement, hostElement,
                   isDisposed, paneOriginalPosition, preferredPositions, origin,
                   positionFallback, viewportMargin, positionFallbackId, positionFallbackIdents, options,
                   domVars, callerPosition, everBound>>

\* mutant: reapplyLastPosition() returning without an error
ReapplyLastPosition_Returns ==
    /\ rev = 3
    /\ lastCall' = Call("reapplyLastPosition", "-", "ok")
    /\ UNCHANGED <<manual, rev, isBrowser, direction, positionChanges, strategyVars, positionFallbackId, positionFallbackIdents, options,
                   domVars, callerPosition, everBound>>

\* reapplyLastPosition() (rev 3; the earlier revisions do not define it)
ReapplyLastPosition ==
    /\ rev = 3
    /\ lastCall' = Call("reapplyLastPosition", "-", "Unimplemented")
    /\ UNCHANGED <<manual, rev, isBrowser, direction, positionChanges, strategyVars, positionFallbackId, positionFallbackIdents, options,
                   domVars, callerPosition, everBound>>

Next ==
    \/ Attach
    \/ Apply
    \/ Detach
    \/ Dispose
    \/ WithPositions
    \/ SetOrigin
    \/ WithPositionFallback
    \/ WithViewportMargin
    \/ WithFlexibleDimensions
    \/ ReapplyLastPosition

Spec == Init /\ [][Next]_vars

-----------------------------------------------------------------------------
(* Every configuration setter, with the lifecycle calls, in a browser.  The
   six setters below store an option that no method of rev 3 reads. *)

OffsetValues == {0, 5}
ScrollableLists == {<<>>, <<"scrollable1">>}

\* how many options are away from their defaults
OptionsSet(opts) ==
    Cardinality({f \in DOMAIN opts : opts[f] # DefaultOptions[f]})

\* a setter that assigns one option and returns this
setOption(field, value) ==
    /\ rev = 3
    /\ options' = [options EXCEPT ![field] = value]
    /\ OptionsSet(options') <= MaxOptionsSet
    /\ lastCall' = Call("configure", "-", "ok")
    /\ UNCHANGED <<manual, rev, isBrowser, direction, positionChanges, strategyVars,
                   positionFallbackId, positionFallbackIdents, domVars,
                   callerPosition, everBound>>

WithScrollableContainers ==
    \E scrollables \in ScrollableLists : setOption("scrollables", scrollables)

WithGrowAfterOpen ==
    \E growAfterOpen \in BOOLEAN : setOption("growAfterOpen", growAfterOpen)

WithPush == \E canPush \in BOOLEAN : setOption("canPush", canPush)

WithLockedPosition == \E isLocked \in BOOLEAN : setOption("positionLocked", isLocked)

WithDefaultOffsetX == \E offset \in OffsetValues : setOption("offsetX", offset)

WithDefaultOffsetY == \E offset \in OffsetValues : setOption("offsetY", offset)

InitSetters == Init /\ rev \in {1, 3} /\ isBrowser /\ callerPosition = ""

NextSetters ==
    \/ Attach
    \/ Apply
    \/ Detach
    \/ Dispose
    \/ WithPositions
    \/ SetOrigin
    \/ WithPositionFallback
    \/ WithViewportMargin
    \/ WithFlexibleDimensions
    \/ WithScrollableContainers
    \/ WithGrowAfterOpen
    \/ WithPush
    \/ WithLockedPosition
    \/ WithDefaultOffsetX
    \/ WithDefaultOffsetY

SpecSetters == InitSetters /\ [][NextSetters]_vars

-----------------------------------------------------------------------------
(* Placement: the declarative engine of rev 3 in a browser, with every pair of
   the position model as input and an overlay whose direction changes *)

\* OverlayReference.setDirection(dir), a call on the overlay, not on the strategy
SetDirection ==
    /\ \E o \in Overlays, dir \in Directions :
          /\ direction' = [direction EXCEPT ![o] = dir]
          /\ lastCall' = Call("setDirection", o, "ok")
    /\ UNCHANGED <<manual, rev, isBrowser, positionChanges, strategyVars, positionFallbackId, positionFallbackIdents, options, domVars,
                   callerPosition, everBound>>

WithAnyPositions == \E positions \in PlacementLists : withPositions(positions)

InitPlacement == Init /\ rev = 3 /\ isBrowser /\ callerPosition = ""

NextPlacement ==
    \/ WithAnyPositions
    \/ SetDirection
    \/ Attach
    \/ Apply

SpecPlacement == InitPlacement /\ [][NextPlacement]_vars

-----------------------------------------------------------------------------
(* The manual placement engine.  Its code is not among the sources; it is
   modelled from section 4.3 of the specification, steps 2 to 4 and 6, in a
   left-to-right context: lengths are whole pixels, a rectangle is its top-left
   corner and its size. *)

Viewport == [width |-> 800, height |-> 600]

ManualAnchors ==
    { [x |-> ax, y |-> ay, width |-> 100, height |-> 100] :
        ax \in {0, 350, 700}, ay \in {0, 250, 490, 500} }

ManualOverlays == { [width |-> 60, height |-> 30], [width |-> 160, height |-> 130] }

ManualPositionLists ==
    { <<Pair("start", "top", "start", "top", ""), Pair("end", "bottom", "end", "bottom", "")>>,
      <<Pair("start", "bottom", "start", "top", "")>>,
      <<Pair("start", "bottom", "start", "top", ""), Pair("start", "top", "start", "bottom", "")>>,
      <<Pair("end", "center", "start", "center", ""), Pair("center", "bottom", "center", "top", "")>> }

Max(a, b) == IF a >= b THEN a ELSE b

\* step 3: the point on the anchor a pair attaches to
attachmentPoint(anchor, position) ==
    [x |-> CASE position.originX = "start" -> anchor.x
             [] position.originX = "center" -> anchor.x + (anchor.width \div 2)
             [] position.originX = "end" -> anchor.x + anchor.width,
     y |-> CASE position.originY = "top" -> anchor.y
             [] position.originY = "center" -> anchor.y + (anchor.height \div 2)
             [] position.originY = "bottom" -> anchor.y + anchor.height]

\* step 3: the top-left corner of the overlay attached at that point
candidateOrigin(m, position) ==
    LET point == attachmentPoint(m.anchor, position) IN
    [x |-> CASE position.overlayX = "start" -> point.x
             [] position.overlayX = "center" -> point.x - (m.overlay.width \div 2)
             [] position.overlayX = "end" -> point.x - m.overlay.width,
     y |-> CASE position.overlayY = "top" -> point.y
             [] position.overlayY = "center" -> point.y - (m.overlay.height \div 2)
             [] position.overlayY = "bottom" -> point.y - m.overlay.height]

\* step 3: how far the overlay at a corner overflows each edge of the viewport
\* less the margin
overflow(m, corner) ==
    [left |-> Max(0, m.margin - corner.x),
     top |-> Max(0, m.margin - corner.y),
     right |-> Max(0, corner.x + m.overlay.width - (Viewport.width - m.margin)),
     bottom |-> Max(0, corner.y + m.overlay.height - (Viewport.height - m.margin))]

totalOverflow(m, corner) ==
    LET o == overflow(m, corner) IN o.left + o.top + o.right + o.bottom

fitsPerfectly(m, i) == totalOverflow(m, candidateOrigin(m, m.positions[i])) = 0

\* mutant: the last of the candidates that fit taken for the first
firstPerfectFit_Last(m) ==
    IF \E i \in 1..Len(m.positions) : fitsPerfectly(m, i)
    THEN CHOOSE i \in 1..Len(m.positions) :
            /\ fitsPerfectly(m, i)
            /\ \A j \in (i + 1)..Len(m.positions) : ~fitsPerfectly(m, j)
    ELSE 0

\* step 3: the candidates are tried in list order and the first that fits
\* wins; 0 if none fits
RECURSIVE firstFitFrom(_, _)
firstFitFrom(m, i) ==
    IF i > Len(m.positions) THEN 0
    ELSE IF fitsPerfectly(m, i) THEN i
    ELSE firstFitFrom(m, i + 1)

firstPerfectFit(m) == firstFitFrom(m, 1)

\* step 4: the candidate with the least total overflow, the earlier of two
\* equal ones
leastOverflow(m) ==
    CHOOSE i \in 1..Len(m.positions) :
        \A j \in 1..Len(m.positions) :
            LET ti == totalOverflow(m, candidateOrigin(m, m.positions[i]))
                tj == totalOverflow(m, candidateOrigin(m, m.positions[j]))
            IN  ti < tj \/ (ti = tj /\ i <= j)

\* mutant: the push made twice as long as the overflow
pushOnScreen_TwiceAsFar(m, corner) ==
    LET o == overflow(m, corner) IN
    [x |-> corner.x + 2 * o.left - 2 * o.right,
     y |-> corner.y + 2 * o.top - 2 * o.bottom]

\* step 4: the corner moved the least distance that brings the overlay
\* on-screen; an overlay larger than the room is put at the top or left edge
pushOnScreen(m, corner) ==
    LET o == overflow(m, corner) IN
    [x |-> IF m.overlay.width >= Viewport.width - 2 * m.margin THEN m.margin
           ELSE corner.x + o.left - o.right,
     y |-> IF m.overlay.height >= Viewport.height - 2 * m.margin THEN m.margin
           ELSE corner.y + o.top - o.bottom]

\* the configuration and the measurements of the engine change
ManualConfigure ==
    /\ \E anchor \in ManualAnchors, overlay \in ManualOverlays,
          positions \in ManualPositionLists, canPush \in BOOLEAN, margin \in Margins :
          manual' = [ManualIdle EXCEPT !.anchor = anchor, !.overlay = overlay,
                                       !.positions = positions, !.canPush = canPush,
                                       !.margin = margin]
    /\ UNCHANGED <<rev, isBrowser, direction, positionChanges, strategyVars,
                   positionFallbackId, positionFallbackIdents, options, domVars, callerPosition, everBound, lastCall>>

\* apply() of the manual engine, steps 3, 4 and 6
ManualApply ==
    /\ Len(manual.positions) > 0
    /\ LET fit == firstPerfectFit(manual)
           chosen == IF fit # 0 THEN fit
                     ELSE IF manual.canPush THEN leastOverflow(manual)
                     ELSE Len(manual.positions)
           corner == candidateOrigin(manual, manual.positions[chosen])
       IN  manual' = [manual EXCEPT
                        !.applied = TRUE,
                        !.chosen = chosen,
                        !.committed = IF fit = 0 /\ manual.canPush
                                      THEN pushOnScreen(manual, corner)
                                      ELSE corner]
    /\ UNCHANGED <<rev, isBrowser, direction, positionChanges, strategyVars,
                   positionFallbackId, positionFallbackIdents, options, domVars, callerPosition, everBound, lastCall>>

InitManual == Init /\ rev = 3 /\ isBrowser /\ callerPosition = ""

NextManual ==
    \/ ManualConfigure
    \/ ManualApply

SpecManual == InitManual /\ [][NextManual]_vars

-----------------------------------------------------------------------------
(* Properties *)

\* a step that is a call of method op
IsCall(op) == lastCall'.op = op

\* the written declarations the strategy is responsible for, on one overlay
PaneIsClean(o) ==
    /\ pane[o].anchorElement = None
    /\ pane[o].anchorDefault = ""
    /\ pane[o].positionFallback = ""
    /\ pane[o].top = "" /\ pane[o].left = ""
    /\ pane[o].bottom = "" /\ pane[o].right = ""
    /\ pane[o].transform = ""
    /\ pane[o].minHeight = "" /\ pane[o].minWidth = ""

HostIsClean(o) ==
    /\ ~host[o].boundingBoxClass
    /\ host[o].top = "" /\ host[o].left = ""
    /\ host[o].right = "" /\ host[o].bottom = ""
    /\ host[o].margin = ""

\* C1 (as claimed, of the current revision): once dispose() has run, the
\* disposed flag stays true and apply() writes nothing, whatever is called
\* later, a later attach() included.
C1_DisposalIsTerminal ==
    [][(rev = 3 /\ isDisposed) =>
        /\ isDisposed'
        /\ IsCall("apply") => (lastCall'.result = "ok" /\ UNCHANGED domVars)]_vars

\* C1 (amended): a disposed strategy stays disposed through every call except
\* a successful attach(), which clears the flag; while the flag is set,
\* apply() returns normally and writes nothing to any pane or host.
C1_DisposedUntilAttach ==
    [][isDisposed =>
        /\ isDisposed' \/ (IsCall("attach") /\ lastCall'.result = "ok")
        /\ IsCall("apply") => (lastCall'.result = "ok" /\ UNCHANGED domVars)]_vars

\* C1 witness: in a browser, apply() has been called on a strategy of the
\* current revision that was attached and then disposed.
C1_Witness ==
    /\ rev = 3
    /\ isDisposed
    /\ isBrowser
    /\ everBound # {}
    /\ lastCall.op = "apply"

\* C2: attach(B) on a strategy bound to a different overlay A throws the
\* 'already attached' error and changes neither the strategy (overlay, host
\* and pane references, disposed flag, configuration) nor any host or pane.
C2_AttachToDifferentOverlayFails ==
    [][(/\ overlayReference # None
        /\ IsCall("attach")
        /\ lastCall'.arg # overlayReference)
       => (/\ lastCall'.result = "AlreadyAttached"
           /\ UNCHANGED <<strategyVars, domVars>>)]_vars

\* C2 witness: bound to one overlay, the last call was attach() with the other
\* overlay and it threw.
C2_Witness ==
    /\ rev = 3
    /\ overlayReference # None
    /\ lastCall.op = "attach"
    /\ lastCall.arg # overlayReference
    /\ lastCall.result = "AlreadyAttached"

\* C3 (as claimed): over its whole lifetime the strategy is bound to at most
\* one distinct overlay.
C3_AtMostOneOverlayEver == Cardinality(everBound) <= 1

\* C3 (amended): from a successful attach(A) until the next dispose() the
\* strategy stays bound to A: attach(B) with B # A fails in every such state
\* (after apply and after detach too), and the binding is given up only by
\* dispose().
C3_BoundUntilDispose ==
    [][overlayReference # None =>
        /\ (IsCall("attach") /\ lastCall'.arg # overlayReference)
              => lastCall'.result # "ok"
        /\ overlayReference' # overlayReference
              => (overlayReference' = None /\ IsCall("dispose"))]_vars

\* C3 witness: after attach(A) and apply(), an attach(B) has failed and A is
\* still the only overlay ever bound.
C3_Witness ==
    /\ rev = 3
    /\ everBound = {overlayReference}
    /\ pane[overlayReference].position = "fixed"
    /\ lastCall.op = "attach"
    /\ lastCall.arg # overlayReference
    /\ lastCall.result # "ok"

\* C4: attach(A) straight after a successful attach(A) returns normally and
\* leaves strategy, panes and hosts as the first attach(A) left them.
C4_AttachSameOverlayIdempotent ==
    [][(/\ lastCall.op = "attach"
        /\ lastCall.result = "ok"
        /\ IsCall("attach")
        /\ lastCall'.arg = lastCall.arg)
       => (/\ lastCall'.result = "ok"
           /\ UNCHANGED <<strategyVars, domVars, everBound>>)]_vars

\* C4 witness: the last call was a second attach() to the same overlay, which
\* returned normally.
C4_Witness ==
    /\ rev = 3
    /\ lastCall.op = "attach"
    /\ lastCall.repeat
    /\ lastCall.result = "ok"
    /\ overlayReference = lastCall.arg

C6_ApplyNoOpWhenDisposedOrNoBrowser ==
    [][((isDisposed \/ ~isBrowser) /\ IsCall("apply"))
       => (/\ lastCall'.result = "ok"
           /\ UNCHANGED <<strategyVars, domVars, positionFallbackId>>)]_vars

\* C6 witness: apply() was called on an attached, not disposed strategy
\* outside a browser.
C6_Witness ==
    /\ rev = 3
    /\ ~isBrowser
    /\ ~isDisposed
    /\ overlayReference # None
    /\ lastCall.op = "apply"
    /\ lastCall.result = "ok"

\* C7 (current revision): after a dispose() that did the disposal, no overlay
\* the strategy was bound to keeps anything the strategy introduced: no anchor
\* association and no written style on the pane, no bounding-box class, inset
\* or margin on the host.
C7_DisposeLeavesNothing ==
    (rev = 3 /\ lastCall.op = "dispose" /\ lastCall.result = "ok")
        => \A o \in everBound : PaneIsClean(o) /\ HostIsClean(o)

\* C8 (revisions 1 and 3): after dispose(), the inline position of a pane the
\* strategy was attached to is the one the pane had before the first attach().
C8_PositionRoundTrip ==
    (rev \in {1, 3} /\ lastCall.op = "dispose" /\ lastCall.result = "ok"
        /\ Cardinality(everBound) = 1)
        => \A o \in everBound : pane[o].position = callerPosition

\* C9: a dispose() that returns normally leaves the strategy disposed, and
\* dispose() on a disposed strategy returns normally and changes neither the
\* strategy nor any pane or host.
C9_DisposeIdempotent ==
    [][IsCall("dispose") =>
        /\ lastCall'.result = "ok" => isDisposed'
        /\ isDisposed => (/\ lastCall'.result = "ok"
                          /\ UNCHANGED <<strategyVars, domVars>>)]_vars

\* C9 witness: the last call was a second dispose() in a row on a strategy
\* that had been attached.
C9_Witness ==
    /\ rev = 3
    /\ isDisposed
    /\ everBound # {}
    /\ lastCall.op = "dispose"
    /\ lastCall.repeat
    /\ lastCall.result = "ok"

\* C10: apply() straight after an apply() that returned normally returns
\* normally and leaves every pane and host with the declarations the first
\* apply() wrote.
C10_ApplyIdempotent ==
    [][(/\ lastCall.op = "apply"
        /\ lastCall.result = "ok"
        /\ IsCall("apply"))
       => (/\ lastCall'.result = "ok"
           /\ UNCHANGED domVars)]_vars

\* C10 witness: a second apply() in a row on an attached, not disposed
\* strategy in a browser.
C10_Witness ==
    /\ rev = 3
    /\ isBrowser
    /\ ~isDisposed
    /\ overlayElement # None
    /\ pane[overlayElement].position = "fixed"
    /\ lastCall.op = "apply"
    /\ lastCall.repeat
    /\ lastCall.result = "ok"

\* an inset or a reference to a fallback rule set among the pane's declarations
HasPositionDeclaration(p) ==
    \/ p.top # "" \/ p.left # "" \/ p.bottom # "" \/ p.right # ""
    \/ p.positionFallback # ""

\* C11 (as claimed, of the current revision): with a non-empty valid list,
\* apply() on an attached strategy in a browser returns normally and leaves
\* the pane with an inset or a fallback reference.
C11_ApplyLeavesPositionDeclaration ==
    (/\ rev = 3
     /\ isBrowser
     /\ ~isDisposed
     /\ overlayElement # None
     /\ validatePositions(preferredPositions) = "ok"
     /\ lastCall.op = "apply")
    => (/\ lastCall.result = "ok"
        /\ HasPositionDeclaration(pane[overlayElement]))

\* C12: detach() leaves the bound overlay, the origin, the position list and
\* the rest of the configuration as they were, so attach() fails after it for
\* exactly the overlays it failed for before.
C12_DetachKeepsBondAndConfiguration ==
    [][IsCall("detach")
       => (/\ UNCHANGED strategyVars
           /\ \A o \in Overlays :
                 (/\ overlayReference' # None
                  /\ o # overlayReference')
                 <=> AlreadyAttached(o))]_vars

\* C12 witness: detach() has returned on a strategy bound to an overlay, with
\* a position list stored.
C12_Witness ==
    /\ rev = 1
    /\ overlayReference = "A"
    /\ preferredPositions # <<>>
    /\ lastCall.op = "detach"
    /\ lastCall.result = "ok"

\* C13 (as claimed): when detach() follows an apply() that placed the overlay,
\* the strategy stays bound and not disposed, and an apply() of the state
\* detach() leaves gives the pane and host the declarations they had after
\* the first apply().
C13_DetachIsReversible ==
    [][(/\ lastCall.op = "apply"
        /\ lastCall.result = "ok"
        /\ ~applyIsNoOp
        /\ overlayElement # None
        /\ IsCall("detach"))
       => (/\ overlayElement' = overlayElement
           /\ hostElement' = hostElement
           /\ ~isDisposed'
           /\ \A o \in Overlays :
                 /\ pane[o] = IF o = overlayElement
                               THEN applyPane(pane'[o], o) ELSE pane'[o]
                 /\ host[o] = IF o = hostElement
                               THEN applyHost(host'[o]) ELSE host'[o])]_vars

\* a list that is not empty and has no pair with a panelClass
IsAcceptableList(positions) ==
    /\ Len(positions) > 0
    /\ \A i \in 1..Len(positions) : positions[i].panelClass = ""

\* the error the claim names for a list, or "ok"
ExpectedValidation(positions) ==
    IF Len(positions) = 0 THEN "PositionRequired"
    ELSE IF IsAcceptableList(positions) THEN "ok"
    ELSE "PanelClassNotSupported"

C15_PlacementHasNonEmptyList ==
    (/\ rev = 3
     /\ isBrowser
     /\ ~isDisposed
     /\ overlayElement # None
     /\ lastCall.op = "apply"
     /\ lastCall.result = "ok")
    => Len(preferredPositions) > 0

\* a list with a pair that asks for center on either axis
HasCenter(positions) ==
    \E i \in 1..Len(positions) :
        positions[i].overlayX = "center" \/ positions[i].overlayY = "center"

\* C16 (as claimed, of the current revision): withPositions(list), and
\* attach() with an overlay its guard lets through, throw when the list has a
\* pair that asks for center.
C16_CenterIsRejected ==
    [][rev = 3
       => (/\ (WithPositions /\ HasCenter(preferredPositions'))
                => lastCall'.result # "ok"
           /\ (IsCall("attach") /\ ~AlreadyAttached(lastCall'.arg)
                                /\ HasCenter(preferredPositions))
                => lastCall'.result # "ok")]_vars

\* C16 (amended): a list that is acceptable otherwise is accepted with a pair
\* that asks for center: withPositions returns normally, attach() with an
\* overlay its guard lets through binds it, and apply() on the bound strategy
\* returns normally with the list stored.
C16_CenterIsAccepted ==
    [][(rev = 3 /\ HasCenter(preferredPositions') /\ IsAcceptableList(preferredPositions'))
       => (/\ WithPositions => lastCall'.result = "ok"
           /\ (IsCall("attach") /\ ~AlreadyAttached(lastCall'.arg))
                => (lastCall'.result = "ok" /\ overlayReference' = lastCall'.arg)
           /\ (IsCall("apply") /\ overlayElement # None)
                => (lastCall'.result = "ok" /\ UNCHANGED preferredPositions))]_vars

\* C16 witness: apply() has placed an overlay with a centred pair stored.
C16_Witness ==
    /\ rev = 3
    /\ isBrowser
    /\ ~isDisposed
    /\ overlayElement # None
    /\ HasCenter(preferredPositions)
    /\ pane[overlayElement].position = "fixed"
    /\ lastCall.op = "apply"
    /\ lastCall.result = "ok"

\* the physical side _getAnchorPosition gives the horizontal inset of a pair
ResolvedSide(position, rtl) ==
    LET anchorPosition == getAnchorPosition(position, rtl) IN
    IF anchorPosition.left # None THEN "left"
    ELSE IF anchorPosition.right # None THEN "right"
    ELSE "none"

\* the side the position model gives a logical value in a direction
PhysicalSide(value, rtl) ==
    IF value = "start" THEN (IF rtl THEN "right" ELSE "left")
    ELSE (IF rtl THEN "left" ELSE "right")

\* C17 (as claimed): when apply() has placed the overlay, every stored pair
\* whose overlayX is start or end has its horizontal inset on the side the
\* position model gives that value in the overlay's direction: start is left
\* in ltr and right in rtl, end the mirror.
C17_StartEndResolveByDirection ==
    (/\ rev = 3
     /\ ~isDisposed
     /\ overlayReference # None
     /\ lastCall.op = "apply"
     /\ lastCall.result = "ok")
    => \A i \in 1..Len(preferredPositions) :
          preferredPositions[i].overlayX \in {"start", "end"}
          => ResolvedSide(preferredPositions[i], isRtl)
                = PhysicalSide(preferredPositions[i].overlayX, isRtl)

\* C18 (as claimed): when the direction of the bound overlay changes, the side
\* the next apply() resolves is another one than before, for every stored
\* pair whose overlayX is start or end.
C18_DirectionChangeFlipsSide ==
    [][(/\ rev = 3
        /\ ~isDisposed
        /\ overlayReference # None
        /\ IsCall("setDirection")
        /\ direction'[overlayReference] # direction[overlayReference])
       => \A i \in 1..Len(preferredPositions) :
             preferredPositions[i].overlayX \in {"start", "end"}
             => ResolvedSide(preferredPositions[i], direction'[overlayReference] = "rtl")
                    # ResolvedSide(preferredPositions[i], isRtl)]_vars

\* C19 (as claimed, of the current revision): when apply() has placed an
\* overlay with two or more acceptable pairs stored, exactly one fallback rule
\* set is registered, and none is once the strategy is disposed.
C19_OneStyleSheetForSeveralPositions ==
    /\ (/\ rev = 3
        /\ isBrowser
        /\ ~isDisposed
        /\ overlayElement # None
        /\ Len(preferredPositions) >= 2
        /\ IsAcceptableList(preferredPositions)
        /\ lastCall.op = "apply"
        /\ lastCall.result = "ok")
       => Cardinality(styleSheets) = 1
    /\ (rev = 3 /\ isDisposed) => styleSheets = {}

\* C20: on the current revision, with exactly one pair stored, no attach(),
\* apply(), detach() or dispose() adds a fallback rule set to the document.
C20_NoStyleSheetForOnePosition ==
    [][(/\ rev = 3
        /\ Len(preferredPositions) = 1
        /\ lastCall'.op \in {"attach", "apply", "detach", "dispose"})
       => styleSheets' \subseteq styleSheets]_vars

\* C20 witness: apply() has placed an overlay with exactly one pair stored.
C20_Witness ==
    /\ rev = 3
    /\ isBrowser
    /\ ~isDisposed
    /\ overlayElement # None
    /\ Len(preferredPositions) = 1
    /\ IsAcceptableList(preferredPositions)
    /\ pane[overlayElement].position = "fixed"
    /\ styleSheets = {}
    /\ lastCall.op = "apply"
    /\ lastCall.result = "ok"

\* C21: on the current revision every reapplyLastPosition() throws, and it
\* leaves the strategy, the panes, the hosts and the document as they were.
C21_ReapplyLastPositionFails ==
    [][IsCall("reapplyLastPosition")
       => (/\ lastCall'.result = "Unimplemented"
           /\ UNCHANGED <<strategyVars, domVars, positionFallbackId>>)]_vars

\* C21 witness: reapplyLastPosition() has thrown on a bound strategy whose
\* pane an apply() has placed.
C21_Witness ==
    /\ rev = 3
    /\ ~isDisposed
    /\ overlayElement # None
    /\ pane[overlayElement].position = "fixed"
    /\ lastCall.op = "reapplyLastPosition"
    /\ lastCall.result = "Unimplemented"

C24_SettersTakeEffectAtNextApply ==
    [][(/\ rev = 3
        /\ lastCall.op = "configure"
        /\ IsCall("apply")
        /\ ~applyIsNoOp
        /\ overlayElement # None)
       => LET p == pane'[overlayElement]
              h == host'[hostElement]
              config == getConfig(overlayElement)
          IN  /\ lastCall'.result = "ok"
              /\ p.anchorElement = anchorOf(origin)
              /\ h.margin = IF viewportMargin = 0 THEN ""
                             ELSE ToString(viewportMargin) \o "px"
              /\ p.minHeight = IF hasFlexibleDimensions THEN config.minHeight ELSE ""
              /\ p.minWidth = IF hasFlexibleDimensions THEN config.minWidth ELSE ""]_vars

\* C24 witness: apply() has placed an overlay with the origin, the viewport
\* margin and the flexible-dimensions setting all changed from their initial
\* values, and the pane and host show the changed values.
C24_Witness ==
    /\ rev = 3
    /\ isBrowser
    /\ ~isDisposed
    /\ overlayElement = "A"
    /\ origin \in ElementRefs
    /\ viewportMargin # 0
    /\ ~hasFlexibleDimensions
    /\ pane["A"].anchorElement = "el2"
    /\ pane["A"].minHeight = ""
    /\ host["A"].margin = "8px"
    /\ lastCall.op = "apply"
    /\ lastCall.result = "ok"

\* the candidates of the manual engine that fit with no overflow on any edge
PerfectFits == { i \in 1..Len(manual.positions) : fitsPerfectly(manual, i) }

NaiveOverflow ==
    overflow(manual, candidateOrigin(manual, manual.positions[manual.chosen]))

FreshPane == [EmptyPane EXCEPT !.position = callerPosition]
FreshHost == IF rev = 1 THEN EmptyHost ELSE addBoundingBoxClass(EmptyHost)

\* C27 (as claimed, of the first and the current revision): when apply() has
\* placed the overlay, the pane and the host carry what an apply() with the
\* configuration as it is now writes to a pane and a host never written to,
\* whatever setters and apply() calls came before.
C27_ApplyDependsOnConfigurationOnly ==
    (/\ rev \in {1, 3}
     /\ isBrowser
     /\ ~isDisposed
     /\ overlayElement # None
     /\ lastCall.op = "apply"
     /\ lastCall.result = "ok")
    => (/\ pane[overlayElement] = applyPane(FreshPane, overlayElement)
        /\ hostElement # None => host[hostElement] = applyHost(FreshHost))

\* C28: on the current revision, when apply() has placed the overlay, the
\* anchor element of the pane is the origin as it is now, or the element the
\* origin refers to when it is an ElementRef.
C28_AnchorIsCurrentOrigin ==
    (/\ rev = 3
     /\ isBrowser
     /\ ~isDisposed
     /\ overlayElement # None
     /\ lastCall.op = "apply"
     /\ lastCall.result = "ok")
    => (/\ pane[overlayElement].anchorElement \in Elements
        /\ pane[overlayElement].anchorElement
              = (IF origin \in ElementRefs THEN "el2" ELSE origin))

\* C28 witness: after setOrigin with an ElementRef of another element than the
\* first origin, apply() has made that element the anchor of the pane.
C28_Witness ==
    /\ rev = 3
    /\ isBrowser
    /\ ~isDisposed
    /\ overlayElement # None
    /\ origin \in ElementRefs
    /\ pane[overlayElement].anchorElement = "el2"
    /\ lastCall.op = "apply"
    /\ lastCall.result = "ok"

\* the try-blocks of the pairs of a list of up to three, first pair first
BlocksInListOrder(positions, rtl) ==
    CASE Len(positions) = 0 -> ""
      [] Len(positions) = 1 -> tryCss(positions[1], rtl)
      [] Len(positions) = 2 -> tryCss(positions[1], rtl) \o tryCss(positions[2], rtl)
      [] Len(positions) = 3 -> tryCss(positions[1], rtl) \o tryCss(positions[2], rtl)
                                   \o tryCss(positions[3], rtl)

\* C29: the rule set apply() builds for the stored list is the header, then
\* the try-block of the first pair, of the second, and so on to the last, one
\* for each pair, then the closing brace.
C29_OneTryBlockPerPairInOrder ==
    (/\ rev = 3
     /\ ~isDisposed
     /\ overlayReference # None
     /\ Len(preferredPositions) <= 3
     /\ lastCall.op = "apply"
     /\ lastCall.result = "ok")
    => getPositionTryCss("--overlay-position-fallback-0")
          = "@position --overlay-position-fallback-0 { "
                \o BlocksInListOrder(preferredPositions, isRtl) \o "}"

\* C29 witness: apply() has run with three pairs stored.
C29_Witness ==
    /\ rev = 3
    /\ ~isDisposed
    /\ overlayReference # None
    /\ Len(preferredPositions) = 3
    /\ lastCall.op = "apply"
    /\ lastCall.result = "ok"

\* C30 (as claimed): when apply() has run, each stored pair has the top and
\* bottom of every pair with its originY and overlayY, and the left and right
\* of every pair with its originX and overlayX.
C30_AxesAreIndependent ==
    (/\ rev = 3
     /\ ~isDisposed
     /\ overlayReference # None
     /\ lastCall.op = "apply"
     /\ lastCall.result = "ok")
    => \A i \in 1..Len(preferredPositions) : \A q \in AllPairs :
          LET p == preferredPositions[i]
              a == getAnchorPosition(p, isRtl)
              b == getAnchorPosition(q, isRtl)
          IN  /\ (q.originY = p.originY /\ q.overlayY = p.overlayY)
                    => (b.top = a.top /\ b.bottom = a.bottom)
              /\ (q.originX = p.originX /\ q.overlayX = p.overlayX)
                    => (b.left = a.left /\ b.right = a.right)

-----------------------------------------------------------------------------
-----------------------------------------------------------------------------
-----------------------------------------------------------------------------
\* C33: whenever apply() would get past its disposed/non-browser guard an
\* overlay is attached, and no apply() call ends in an error
C33_ApplyPastGuardIsAttached ==
    (rev = 3 /\ lastCall.op = "apply" /\ ~applyIsNoOp) =>
        /\ overlayElement # None /\ hostElement # None
        /\ lastCall.result = "ok"

\* C34: detach() and dispose() never throw, whatever the lifecycle state
C34_DetachAndDisposeNeverThrow ==
    lastCall.op \in {"detach", "dispose"} => lastCall.result = "ok"

-----------------------------------------------------------------------------
\* C35: a withPositions(list) call that throws leaves the stored list of
\* preferred positions, one that had passed validation, as it was (rev 3, the
\* revision that validates in the setter)
C35_RejectedListIsNotStored ==
    [][(/\ rev = 3
        /\ validatePositions(preferredPositions) = "ok"
        /\ WithPositions
        /\ lastCall'.result # "ok")
       => preferredPositions' = preferredPositions]_vars

-----------------------------------------------------------------------------
\* C36: a configuration setter changes only the strategy's configuration: it
\* leaves the panes, the hosts and the registered rule sets as they were and
\* does not change what the strategy is bound to or whether it is disposed;
\* a step that changes the DOM is an attach, apply, detach or dispose
C36_SettersChangeOnlyConfiguration ==
    [][/\ lastCall'.op = "configure" =>
            UNCHANGED <<pane, host, styleSheets, overlayReference, overlayElement,
                        hostElement, isDisposed, paneOriginalPosition, positionChanges,
                        positionFallbackId, positionFallbackIdents>>
       /\ domVars' # domVars =>
            lastCall'.op \in {"attach", "apply", "detach", "dispose"}]_vars

\* a setter of an option no method reads has been called on a bound strategy
\* whose pane and host carry what apply() wrote
C36_Witness ==
    /\ rev = 3
    /\ lastCall.op = "configure" /\ lastCall.result = "ok"
    /\ options.canPush = FALSE
    /\ overlayElement # None /\ ~isDisposed
    /\ pane[overlayElement].position = "fixed"
    /\ host[hostElement].margin = "8px"

\* the same in the first revision: withPositionFallback after an apply()
C36_WitnessFirstRevision ==
    /\ rev = 1
    /\ lastCall.op = "configure"
    /\ positionFallback # None
    /\ overlayElement # None
    /\ pane[overlayElement].position = "fixed"
    /\ pane[overlayElement].positionFallback = ""

-----------------------------------------------------------------------------
\* C37: in the state an effective apply() leaves, the host margin is the
\* viewport margin in px, or empty when the margin is 0; the pane's minimum
\* height and width are those of the overlay's configuration when flexible
\* dimensions are enabled and empty when they are not; and the pane's inline
\* position is fixed (rev 3)
C37_ApplyWritesMarginAndMinSizes ==
    (/\ rev = 3
     /\ lastCall.op = "apply"
     /\ ~applyIsNoOp
     /\ overlayElement # None)
    => LET p == pane[overlayElement]
           h == host[hostElement]
           config == getConfig(overlayElement)
       IN  /\ h.margin = IF viewportMargin # 0
                         THEN ToString(viewportMargin) \o "px" ELSE ""
           /\ p.minHeight = IF hasFlexibleDimensions THEN config.minHeight ELSE ""
           /\ p.minWidth = IF hasFlexibleDimensions THEN config.minWidth ELSE ""
           /\ p.position = "fixed"

\* apply() has placed overlay B with no viewport margin and flexible
\* dimensions enabled: no margin on the host, B's minimum width on the pane
C37_Witness ==
    /\ rev = 3
    /\ lastCall.op = "apply" /\ lastCall.result = "ok"
    /\ ~applyIsNoOp
    /\ overlayElement = "B"
    /\ viewportMargin = 0 /\ hasFlexibleDimensions
    /\ host["B"].margin = ""
    /\ pane["B"].minWidth = "20px" /\ pane["B"].minHeight = ""
    /\ pane["B"].position = "fixed"

-----------------------------------------------------------------------------
\* the text of a try block with one vertical and one horizontal inset
OneInsetTry(position, vertical, horizontal) ==
    "@try { " \o vertical \o ": anchor(" \o position.originY \o "); "
        \o "align-items: "
        \o (IF position.overlayX = "end" THEN "flex-end" ELSE "flex-start")
        \o horizontal \o ": anchor(" \o position.originX \o "); "
        \o "justify-content: "
        \o (IF position.overlayY = "bottom" THEN "flex-end" ELSE "flex-start")
        \o "} "

\* C38: when apply() has placed the overlay, the try block of every stored
\* pair with no center value carries exactly one vertical inset, top when
\* overlayY is top and bottom otherwise, and exactly one horizontal inset,
\* left or right
C38_OneInsetPerAxis ==
    (/\ rev = 3
     /\ ~isDisposed
     /\ overlayReference # None
     /\ lastCall.op = "apply"
     /\ lastCall.result = "ok")
    => \A i \in 1..Len(preferredPositions) :
          LET p == preferredPositions[i]
              a == getAnchorPosition(p, isRtl)
              vertical == IF p.overlayY = "top" THEN "top" ELSE "bottom"
          IN  ~HasCenter(<<p>>)
              => /\ (a.top # None) # (a.bottom # None)
                 /\ (a.top # None) <=> (p.overlayY = "top")
                 /\ (a.left # None) # (a.right # None)
                 /\ \E horizontal \in {"left", "right"} :
                        tryCss(p, isRtl) = OneInsetTry(p, vertical, horizontal)

\* apply() has placed an overlay in rtl with a pair whose overlayX is end and
\* overlayY is bottom: the block has a bottom and a right inset only
C38_Witness ==
    /\ rev = 3
    /\ overlayReference # None /\ ~isDisposed
    /\ lastCall.op = "apply" /\ lastCall.result = "ok"
    /\ isRtl
    /\ Len(preferredPositions) >= 1
    /\ preferredPositions[1].overlayX = "end"
    /\ preferredPositions[1].overlayY = "bottom"
    /\ LET a == getAnchorPosition(preferredPositions[1], isRtl)
       IN  a.right # None /\ a.left = None /\ a.bottom # None /\ a.top = None

=============================================================================
